---------------------------- MODULE Spec2Model ----------------------------
(***************************************************************************)
(* Model of oscar_docdata.facade.Facade.order_status_changed: the bridge   *)
(* that applies a Docdata status notification to the Oscar order.          *)
(*                                                                         *)
(* Two request handlers (the return redirect and the server callback) may  *)
(* call the method concurrently.  Each runs inside the database            *)
(* transaction of its request: select_for_update() takes a row lock that   *)
(* is held until that transaction ends, writes stay private to the         *)
(* transaction until it commits, and an exception leaving the method rolls *)
(* the transaction back.                                                   *)
(***************************************************************************)
EXTENDS Integers, Sequences, FiniteSets, TLC

\* Bounds of the model.
MaxCalls == 3          \* invocations of order_status_changed, in total
MaxFaults == 1         \* failures injected into order.save() / signal receivers
MaxLiveCalls == 3      \* invocations in the progress check
MaxSourceCalls == 4    \* calls of get_source_type, in total
MaxPayCalls == 3       \* calls of create_payment, in total
MaxTotalsCalls == 3    \* notifications in the ledger check
MaxReports == 3        \* reports of payment attempts, in total

None == "None"

\* The two delivery channels of Docdata (return URL and status callback).
Procs == {"return", "callback"}

\* Merchant order numbers a DocdataOrder may carry; "o9" has no Oscar order.
Numbers == {"o1", "o2", "o9"}

\* Statuses Docdata reports (new_status); "on_hold" is not in the mapping.
ExternalStatuses == {"new", "paid", "closed_success", "on_hold"}

\* Values of old_status the interface passes along.
OldStatuses == {"new", "paid"}

\* appsettings.DOCDATA_ORDER_STATUS_MAPPING: Docdata status -> Oscar status.
DOCDATA_ORDER_STATUS_MAPPING ==
    ("new" :> "Pending") @@ ("paid" :> "Paid") @@ ("closed_success" :> "Paid")

\* appsettings.OSCAR_ORDER_STATUS_CASCADE: Oscar order status -> line status.
OSCAR_ORDER_STATUS_CASCADE ==
    ("Paid" :> "Being processed")

\* dict.get(key, default)
DictGet(d, key, default) == IF key \in DOMAIN d THEN d[key] ELSE default

\* Python truth value of a status string or None.
Truthy(v) == v # None /\ v # ""

\* line 109 with the default of get() left out.
MapStatus_strict(new) == DictGet(DOCDATA_ORDER_STATUS_MAPPING, new, None)

\* line 109
MapStatus(new) == DictGet(DOCDATA_ORDER_STATUS_MAPPING, new, new)

\* line 110
CascadeFor(project) == DictGet(OSCAR_ORDER_STATUS_CASCADE, project, None)

\* str.format: replacement fields are positional indexes into the arguments;
\* an index beyond the arguments raises IndexError.
FormatRaises(fields, nargs) == \E i \in fields : i >= nargs

\* line 117: "Order {0} status is already {1}, skipping signal.".format(order.number)
LogFields == {0, 1}
LogArgs == 1

VARIABLES
    orders,          \* committed Order rows: number -> status
    lines,           \* committed Line rows: id -> [order, status]
    lock,            \* row lock of each order number: owner or None
    txOrder,         \* uncommitted write of the order row, per transaction
    txLines,         \* uncommitted writes of line rows, per transaction
    pc,              \* position of each handler
    docdataorder,    \* argument: docdataorder.merchant_order_id
    old_status,      \* argument
    new_status,      \* argument
    project_status,  \* local
    cascade,         \* local
    order,           \* local: the Order instance in memory
    exc,             \* exception that left the method, or None
    sent,            \* the order_status_changed signal this invocation sent
    log,             \* diagnostic log entries written
    history,         \* per order: the statuses applied and notified so far
    lastDone,        \* per order: new_status of the last delivery handled
    race,            \* bookkeeping of a pair of racing deliveries
    inRace,          \* the invocation belongs to the pair in race
    calls,           \* invocations so far
    faults,          \* failures injected so far
    sourceTypes,     \* SourceType rows, by id: [code, name]
    stPc,            \* position of each caller of get_source_type
    stRet,           \* the row get_source_type returns, or 0
    stCalls,         \* calls of get_source_type so far
    cpPc,            \* position of the caller of create_payment
    order_number,    \* create_payment: the order number passed
    profile,         \* create_payment: the profile, passed or defaulted
    order_key,       \* create_payment: the key the gateway call returned
    gateway,         \* what the gateway call was given and what it did
    cpResult,        \* what create_payment returned to its caller
    cpExc,           \* the exception create_payment raised to its caller
    cpCalls,         \* calls of create_payment so far
    totals,          \* committed ledger total of each Docdata order
    txTotals,        \* the total each open transaction has written
    payments,        \* payment attempts, by payment id: [order, amount_debited]
    total_captured,  \* captured total of each Docdata order
    lastReport,      \* the last attempt report: payment, amount, amount before
    reports          \* attempt reports so far

\* The state of order_status_changed and of the transaction around it.
coreVars == <<orders, lines, lock, txOrder, txLines, pc, docdataorder,
              old_status, new_status, project_status, cascade, order, exc,
              sent, log, history, lastDone, race, inRace, calls, faults,
              totals, txTotals>>

\* The state of get_source_type.
srcVars == <<sourceTypes, stPc, stRet, stCalls>>

\* The state of create_payment.
payVars == <<cpPc, order_number, profile, order_key, gateway, cpResult, cpExc,
             cpCalls>>

\* The state of the ledger of payment attempts.
attemptVars == <<payments, total_captured, lastReport, reports>>

\* The state of the other methods, which order_status_changed leaves alone.
auxVars == <<srcVars, payVars, attemptVars>>

vars == <<coreVars, auxVars>>

dbVars == <<orders, lines>>
ledgerVars == <<totals, txTotals>>
argVars == <<docdataorder, old_status, new_status, project_status, cascade>>
ghostVars == <<history, lastDone, race, inRace>>

Other(p) == CHOOSE q \in Procs : q # p

NoLines == [l \in {} |-> None]
NoRace == [n |-> None, ps |-> None, fin |-> 0, app |-> 0, emit |-> 0, fail |-> 0]
NoOrder == [number |-> None, status |-> None]
NoSignal == [order |-> None, old_status |-> None, new_status |-> None]

\* The transaction has written no total.
NoTotal == -1

\* order.lines: the ids of the line rows of an order.
LinesOf(n) == {l \in DOMAIN lines : lines[l].order = n}

CoreInit ==
    /\ orders = ("o1" :> "Pending") @@ ("o2" :> "Pending")
    /\ lines = ("l1" :> [order |-> "o1", status |-> "Pending"])
            @@ ("l2" :> [order |-> "o1", status |-> "Pending"])
            @@ ("l3" :> [order |-> "o2", status |-> "Pending"])
    /\ lock = [n \in Numbers |-> None]
    /\ txOrder = [p \in Procs |-> None]
    /\ txLines = [p \in Procs |-> NoLines]
    /\ pc = [p \in Procs |-> "idle"]
    /\ docdataorder = [p \in Procs |-> None]
    /\ old_status = [p \in Procs |-> None]
    /\ new_status = [p \in Procs |-> None]
    /\ project_status = [p \in Procs |-> None]
    /\ cascade = [p \in Procs |-> None]
    /\ order = [p \in Procs |-> NoOrder]
    /\ exc = [p \in Procs |-> None]
    /\ sent = [p \in Procs |-> NoSignal]
    /\ log = 0
    /\ history = [n \in Numbers |-> {}]
    /\ lastDone = [n \in Numbers |-> None]
    /\ race = NoRace
    /\ inRace = [p \in Procs |-> FALSE]
    /\ calls = 0
    /\ faults = 0
    /\ totals = [n \in Numbers |-> 0]
    /\ txTotals = [p \in Procs |-> NoTotal]

\* No caller of get_source_type yet.
SrcIdle ==
    /\ stPc = [p \in Procs |-> "idle"]
    /\ stRet = [p \in Procs |-> 0]
    /\ stCalls = 0

NoReply == [profile |-> None, outcome |-> None, value |-> None]
NoException == [type |-> None, value |-> None, cause |-> None]

\* No caller of create_payment yet.
PayIdle ==
    /\ cpPc = "idle"
    /\ order_number = None
    /\ profile = None
    /\ order_key = None
    /\ gateway = NoReply
    /\ cpResult = None
    /\ cpExc = NoException
    /\ cpCalls = 0

NoReport == [payment |-> None, amount |-> NoTotal, before |-> NoTotal]

\* No payment attempt reported yet.
NoAttempts ==
    /\ payments = [i \in {} |-> None]
    /\ total_captured = [n \in Numbers |-> 0]
    /\ lastReport = NoReport
    /\ reports = 0

Init ==
    /\ CoreInit
    /\ sourceTypes = << >>
    /\ SrcIdle
    /\ PayIdle
    /\ NoAttempts

-----------------------------------------------------------------------------
\* Two deliveries race when the second is called while the first is still
\* inside the method or its transaction, both for the same existing order and
\* the same target status, which the order does not have yet.
RaceStarts(p, n, ps) ==
    LET q == Other(p) IN
    /\ pc[q] \notin {"idle", "raised"}
    /\ ~inRace[q]
    /\ docdataorder[q] = n
    /\ project_status[q] = ps
    /\ n \in DOMAIN orders
    /\ orders[n] # ps

\* A request handler calls order_status_changed(docdataorder, old_status,
\* new_status) inside its transaction, with arguments drawn from the given
\* sets; lines 108-110 compute the locals.
\* The ledger update of a notification: the reported total is written to
\* the Docdata order in the transaction of the request, before the status
\* change is handed to order_status_changed.
LedgerUpdate(p, amount) ==
    /\ txTotals' = [txTotals EXCEPT ![p] = amount]
    /\ UNCHANGED totals

CallFrom(p, numbers, olds, news, max, amounts) ==
    /\ pc[p] = "idle"
    /\ calls < max
    /\ \E n \in numbers, old \in olds, new \in news, amount \in amounts :
        LET ps == MapStatus(new) IN
            /\ LedgerUpdate(p, amount)
            /\ docdataorder' = [docdataorder EXCEPT ![p] = n]
            /\ old_status' = [old_status EXCEPT ![p] = old]
            /\ new_status' = [new_status EXCEPT ![p] = new]
            /\ project_status' = [project_status EXCEPT ![p] = ps]
            /\ cascade' = [cascade EXCEPT ![p] = CascadeFor(ps)]
            /\ race' = IF RaceStarts(p, n, ps)
                       THEN [NoRace EXCEPT !.n = n, !.ps = ps,
                               !.emit = IF sent[Other(p)] # NoSignal THEN 1 ELSE 0]
                       ELSE IF race.fin = 2 THEN NoRace ELSE race
            /\ inRace' = IF RaceStarts(p, n, ps)
                         THEN [r \in Procs |-> TRUE]
                         ELSE inRace
    /\ pc' = [pc EXCEPT ![p] = "L114"]
    /\ calls' = calls + 1
    /\ UNCHANGED auxVars
    /\ UNCHANGED <<dbVars, lock, txOrder, txLines, order, exc, sent, log,
                   history, lastDone, faults>>

Call(p) == CallFrom(p, Numbers, OldStatuses, ExternalStatuses, MaxCalls, {0})

\* line 114 without select_for_update(): the row is read, no lock is taken.
SelectForUpdate_nolock(p) ==
    /\ pc[p] = "L114"
    /\ LET n == docdataorder[p] IN
        IF n \notin DOMAIN orders
        THEN /\ pc' = [pc EXCEPT ![p] = "raised"]
             /\ exc' = [exc EXCEPT ![p] = "DoesNotExist"]
             /\ UNCHANGED order
        ELSE /\ order' = [order EXCEPT ![p] = [number |-> n, status |-> orders[n]]]
             /\ pc' = [pc EXCEPT ![p] = "L115"]
             /\ UNCHANGED exc
    /\ UNCHANGED <<auxVars, ledgerVars>>
    /\ UNCHANGED <<dbVars, lock, txOrder, txLines, argVars, sent, log,
                   ghostVars, calls, faults>>

\* line 114 as a get_or_create(): a missing order is made up, not refused.
SelectForUpdate_create(p) ==
    /\ pc[p] = "L114"
    /\ LET n == docdataorder[p] IN
        /\ lock[n] = None
        /\ lock' = [lock EXCEPT ![n] = p]
        /\ order' = [order EXCEPT ![p] =
                       [number |-> n, status |-> DictGet(orders, n, "")]]
        /\ pc' = [pc EXCEPT ![p] = "L115"]
    /\ UNCHANGED <<auxVars, ledgerVars>>
    /\ UNCHANGED <<dbVars, txOrder, txLines, argVars, exc, sent, log,
                   ghostVars, calls, faults>>

\* line 114 with the lock taken on every order row, not on the one looked up.
SelectForUpdate_table(p) ==
    /\ pc[p] = "L114"
    /\ LET n == docdataorder[p] IN
        IF n \notin DOMAIN orders
        THEN /\ pc' = [pc EXCEPT ![p] = "raised"]
             /\ exc' = [exc EXCEPT ![p] = "DoesNotExist"]
             /\ UNCHANGED <<lock, order>>
        ELSE /\ \A m \in DOMAIN orders : lock[m] = None
             /\ lock' = [m \in Numbers |-> IF m \in DOMAIN orders THEN p ELSE lock[m]]
             /\ order' = [order EXCEPT ![p] = [number |-> n, status |-> orders[n]]]
             /\ pc' = [pc EXCEPT ![p] = "L115"]
             /\ UNCHANGED exc
    /\ UNCHANGED <<auxVars, ledgerVars>>
    /\ UNCHANGED <<dbVars, txOrder, txLines, argVars, sent, log, ghostVars,
                   calls, faults>>

\* line 114: Order.objects.select_for_update().get(number=...)
SelectForUpdate(p) ==
    /\ pc[p] = "L114"
    /\ LET n == docdataorder[p] IN
        IF n \notin DOMAIN orders
        THEN /\ pc' = [pc EXCEPT ![p] = "raised"]
             /\ exc' = [exc EXCEPT ![p] = "DoesNotExist"]
             /\ UNCHANGED <<lock, order>>
        ELSE /\ lock[n] = None
             /\ lock' = [lock EXCEPT ![n] = p]
             /\ order' = [order EXCEPT ![p] = [number |-> n, status |-> orders[n]]]
             /\ pc' = [pc EXCEPT ![p] = "L115"]
             /\ UNCHANGED exc
    /\ UNCHANGED <<auxVars, ledgerVars>>
    /\ UNCHANGED <<dbVars, txOrder, txLines, argVars, sent, log, ghostVars,
                   calls, faults>>

\* lines 115-121 without the duplicate check.
CheckDuplicate_noskip(p) ==
    /\ pc[p] = "L115"
    /\ order' = [order EXCEPT ![p].status = project_status[p]]
    /\ pc' = [pc EXCEPT ![p] = "L122"]
    /\ UNCHANGED <<auxVars, ledgerVars>>
    /\ UNCHANGED <<dbVars, lock, txOrder, txLines, argVars, exc, sent, log,
                   ghostVars, calls, faults>>

\* lines 115-121 with the stored status compared to the reported status
\* instead of the mapped one.
CheckDuplicate_external(p) ==
    /\ pc[p] = "L115"
    /\ IF order[p].status = new_status[p]
       THEN /\ pc' = [pc EXCEPT ![p] = "raised"]
            /\ exc' = [exc EXCEPT ![p] = "IndexError"]
            /\ UNCHANGED order
       ELSE /\ order' = [order EXCEPT ![p].status = project_status[p]]
            /\ pc' = [pc EXCEPT ![p] = "L122"]
            /\ UNCHANGED exc
    /\ UNCHANGED <<auxVars, ledgerVars>>
    /\ UNCHANGED <<dbVars, lock, txOrder, txLines, argVars, sent, log,
                   ghostVars, calls, faults>>

\* lines 115-121 with a duplicate branch that waits for the status to change
\* instead of leaving the method.
CheckDuplicate_spin(p) ==
    /\ pc[p] = "L115"
    /\ order[p].status # project_status[p]
    /\ order' = [order EXCEPT ![p].status = project_status[p]]
    /\ pc' = [pc EXCEPT ![p] = "L122"]
    /\ UNCHANGED <<auxVars, ledgerVars>>
    /\ UNCHANGED <<dbVars, lock, txOrder, txLines, argVars, exc, sent, log,
                   ghostVars, calls, faults>>

\* How far a status is in the life of an order.
Rank(status) == IF status = "Paid" THEN 2 ELSE IF status = "on_hold" THEN 1 ELSE 0

\* lines 115-121 with a duplicate branch that also discards a status less
\* advanced than the stored one.
CheckDuplicate_monotone(p) ==
    /\ pc[p] = "L115"
    /\ IF Rank(project_status[p]) <= Rank(order[p].status)
       THEN /\ pc' = [pc EXCEPT ![p] = "raised"]
            /\ exc' = [exc EXCEPT ![p] = "IndexError"]
            /\ UNCHANGED order
       ELSE /\ order' = [order EXCEPT ![p].status = project_status[p]]
            /\ pc' = [pc EXCEPT ![p] = "L122"]
            /\ UNCHANGED exc
    /\ UNCHANGED <<auxVars, ledgerVars>>
    /\ UNCHANGED <<dbVars, lock, txOrder, txLines, argVars, sent, log,
                   ghostVars, calls, faults>>

\* lines 115-121: the duplicate check, and the status set on the instance.
CheckDuplicate(p) ==
    /\ pc[p] = "L115"
    /\ IF order[p].status = project_status[p]
       THEN IF FormatRaises(LogFields, LogArgs)
            THEN /\ pc' = [pc EXCEPT ![p] = "raised"]
                 /\ exc' = [exc EXCEPT ![p] = "IndexError"]
                 /\ UNCHANGED <<log, order>>
            ELSE /\ pc' = [pc EXCEPT ![p] = "returned"]
                 /\ log' = log + 1
                 /\ UNCHANGED <<exc, order>>
       ELSE /\ order' = [order EXCEPT ![p].status = project_status[p]]
            /\ pc' = [pc EXCEPT ![p] = "L122"]
            /\ UNCHANGED <<exc, log>>
    /\ UNCHANGED <<auxVars, ledgerVars>>
    /\ UNCHANGED <<dbVars, lock, txOrder, txLines, argVars, sent, ghostVars,
                   calls, faults>>

\* lines 122-123 with the update not restricted to the lines of the order.
CascadeLines_all(p) ==
    /\ pc[p] = "L122"
    /\ txLines' = [txLines EXCEPT ![p] =
                     IF Truthy(cascade[p])
                     THEN [l \in DOMAIN lines |-> cascade[p]]
                     ELSE NoLines]
    /\ pc' = [pc EXCEPT ![p] = "L124"]
    /\ UNCHANGED <<auxVars, ledgerVars>>
    /\ UNCHANGED <<dbVars, lock, txOrder, argVars, order, exc, sent, log,
                   ghostVars, calls, faults>>

\* lines 122-123: order.lines.all().update(status=cascade)
CascadeLines(p) ==
    /\ pc[p] = "L122"
    /\ txLines' = [txLines EXCEPT ![p] =
                     IF Truthy(cascade[p])
                     THEN [l \in LinesOf(order[p].number) |-> cascade[p]]
                     ELSE NoLines]
    /\ pc' = [pc EXCEPT ![p] = "L124"]
    /\ UNCHANGED <<auxVars, ledgerVars>>
    /\ UNCHANGED <<dbVars, lock, txOrder, argVars, order, exc, sent, log,
                   ghostVars, calls, faults>>

\* line 124 with the failure of order.save() caught and passed over.
SaveOrder_swallow(p) ==
    /\ pc[p] = "L124"
    /\ \/ /\ txOrder' = [txOrder EXCEPT ![p] = order[p].status]
          /\ UNCHANGED faults
       \/ /\ faults < MaxFaults
          /\ faults' = faults + 1
          /\ UNCHANGED txOrder
    /\ pc' = [pc EXCEPT ![p] = "L127"]
    /\ UNCHANGED <<auxVars, ledgerVars>>
    /\ UNCHANGED <<dbVars, lock, txLines, argVars, order, exc, sent, log,
                   ghostVars, calls>>

\* line 124: order.save(), which the database may refuse.
SaveOrder(p) ==
    /\ pc[p] = "L124"
    /\ \/ /\ txOrder' = [txOrder EXCEPT ![p] = order[p].status]
          /\ pc' = [pc EXCEPT ![p] = "L127"]
          /\ UNCHANGED <<exc, faults>>
       \/ /\ faults < MaxFaults
          /\ faults' = faults + 1
          /\ pc' = [pc EXCEPT ![p] = "raised"]
          /\ exc' = [exc EXCEPT ![p] = "DatabaseError"]
          /\ UNCHANGED txOrder
    /\ UNCHANGED <<auxVars, ledgerVars>>
    /\ UNCHANGED <<dbVars, lock, txLines, argVars, order, sent, log,
                   ghostVars, calls>>

\* Interface.order_status_changed: sends the order_status_changed signal with
\* the arguments it was given; a receiver's exception propagates to the caller.
SignalSend(p, d, old, new) ==
    /\ sent' = [sent EXCEPT ![p] = [order |-> d,
                                    old_status |-> old,
                                    new_status |-> new]]
    /\ race' = IF inRace[p] THEN [race EXCEPT !.emit = @ + 1] ELSE race
    /\ \/ /\ pc' = [pc EXCEPT ![p] = "returned"]
          /\ UNCHANGED <<exc, faults>>
       \/ /\ faults < MaxFaults
          /\ faults' = faults + 1
          /\ pc' = [pc EXCEPT ![p] = "raised"]
          /\ exc' = [exc EXCEPT ![p] = "ReceiverError"]

\* line 127 with the statuses of the Oscar order passed on: the status it had
\* before and the mapped status it was given.
SendSignal_mapped(p) ==
    /\ pc[p] = "L127"
    /\ SignalSend(p, docdataorder[p], orders[order[p].number], project_status[p])
    /\ UNCHANGED <<auxVars, ledgerVars>>
    /\ UNCHANGED <<dbVars, lock, txOrder, txLines, argVars, order, log,
                   history, lastDone, inRace, calls>>

\* line 127: super(Facade, self).order_status_changed(docdataorder, old_status, new_status)
SendSignal(p) ==
    /\ pc[p] = "L127"
    /\ SignalSend(p, docdataorder[p], old_status[p], new_status[p])
    /\ UNCHANGED <<auxVars, ledgerVars>>
    /\ UNCHANGED <<dbVars, lock, txOrder, txLines, argVars, order, log,
                   history, lastDone, inRace, calls>>

\* The end of an invocation: the locks of its transaction are released and
\* its frame is gone.
Finish(p) ==
    /\ pc' = [pc EXCEPT ![p] = "idle"]
    /\ lock' = [n \in Numbers |-> IF lock[n] = p THEN None ELSE lock[n]]
    /\ txOrder' = [txOrder EXCEPT ![p] = None]
    /\ txLines' = [txLines EXCEPT ![p] = NoLines]
    /\ order' = [order EXCEPT ![p] = NoOrder]
    /\ docdataorder' = [docdataorder EXCEPT ![p] = None]
    /\ old_status' = [old_status EXCEPT ![p] = None]
    /\ new_status' = [new_status EXCEPT ![p] = None]
    /\ project_status' = [project_status EXCEPT ![p] = None]
    /\ cascade' = [cascade EXCEPT ![p] = None]
    /\ exc' = [exc EXCEPT ![p] = None]
    /\ sent' = [sent EXCEPT ![p] = NoSignal]
    /\ inRace' = [inRace EXCEPT ![p] = FALSE]
    /\ txTotals' = [txTotals EXCEPT ![p] = NoTotal]

\* The method returned: the request's transaction commits and releases the lock.
TxCommit(p) ==
    /\ pc[p] = "returned"
    /\ orders' = IF txOrder[p] # None
                 THEN (order[p].number :> txOrder[p]) @@ orders
                 ELSE orders
    /\ totals' = [totals EXCEPT ![docdataorder[p]] = txTotals[p]]
    /\ lines' = [l \in DOMAIN lines |->
                   IF l \in DOMAIN txLines[p]
                   THEN [lines[l] EXCEPT !.status = txLines[p][l]]
                   ELSE lines[l]]
    /\ Finish(p)
    /\ history' = IF txOrder[p] # None /\ sent[p] # NoSignal
                  THEN [history EXCEPT ![order[p].number] = @ \cup {txOrder[p]}]
                  ELSE history
    /\ lastDone' = IF order[p] # NoOrder
                   THEN [lastDone EXCEPT ![order[p].number] = new_status[p]]
                   ELSE lastDone
    /\ race' = IF inRace[p]
               THEN [race EXCEPT !.fin = @ + 1, !.app = @ + 1]
               ELSE IF race.n = order[p].number /\ txOrder[p] # None
                    THEN NoRace
                    ELSE race
    /\ UNCHANGED auxVars
    /\ UNCHANGED <<log, calls, faults>>

\* An exception left the method: the request's transaction rolls back and
\* releases the lock.
TxRollback(p) ==
    /\ pc[p] = "raised"
    /\ Finish(p)
    /\ lastDone' = IF order[p] # NoOrder
                   THEN [lastDone EXCEPT ![order[p].number] =
                           IF exc[p] = "IndexError" THEN new_status[p] ELSE None]
                   ELSE lastDone
    /\ race' = IF inRace[p]
               THEN IF exc[p] = "IndexError"
                    THEN [race EXCEPT !.fin = @ + 1]
                    ELSE [race EXCEPT !.fin = @ + 1, !.fail = @ + 1]
               ELSE race
    /\ UNCHANGED auxVars
    /\ UNCHANGED <<dbVars, totals, log, history, calls, faults>>

\* The steps of one handler once it has been called.
Step(p) ==
    \/ SelectForUpdate(p)
    \/ CheckDuplicate(p)
    \/ CascadeLines(p)
    \/ SaveOrder(p)
    \/ SendSignal(p)
    \/ TxCommit(p)
    \/ TxRollback(p)

Next == \E p \in Procs : Call(p) \/ Step(p)

Spec == Init /\ [][Next]_vars

\* The deliveries of the progress check: every order number, with
\* a status that has a cascade and one that has no mapping.
LiveNumbers == Numbers
LiveStatuses == {"paid", "on_hold"}

LiveCall(p) ==
    CallFrom(p, LiveNumbers, {"new"}, LiveStatuses, MaxLiveCalls, {0})

LiveNext == \E p \in Procs : LiveCall(p) \/ Step(p)

\* A handler that has been called keeps running: the server runs each request
\* to its end, and the database hands a freed row lock to a waiting request.
Fairness == \A p \in Procs : WF_vars(Step(p))

FairSpec == Init /\ [][LiveNext]_vars /\ Fairness

\* Notifications that report totals: for one order and for the missing one.
TotalsNumbers == {"o1", "o9"}
TotalsStatuses == {"paid", "closed_success", "on_hold"}
Amounts == {0, 50, 100}

TotalsCall(p) ==
    CallFrom(p, TotalsNumbers, {"new"}, TotalsStatuses, MaxTotalsCalls, Amounts)

TotalsNext == \E p \in Procs : TotalsCall(p) \/ Step(p)

TotalsSpec == Init /\ [][TotalsNext]_vars

-----------------------------------------------------------------------------
(***************************************************************************)
(* get_source_type: SourceType.objects.get_or_create(code='docdata',       *)
(* defaults={'name': "Docdata Payments"}).  get_or_create is a get(), on   *)
(* DoesNotExist a create() of the lookup plus the defaults, and on the     *)
(* IntegrityError of the unique code a second get().  Two request handlers *)
(* may be inside it at once.                                               *)
(***************************************************************************)

SOURCE_CODE == "docdata"
SOURCE_NAME == "Docdata Payments"

\* The ids of the rows with the code 'docdata'.
DocdataRows == {i \in DOMAIN sourceTypes : sourceTypes[i].code = SOURCE_CODE}

\* The tables get_source_type may be called on: empty, holding another
\* source type, or holding the 'docdata' row under a name given to it since.
SourceTables ==
    { << >>,
      << [code |-> "paypal", name |-> "PayPal"] >>,
      << [code |-> SOURCE_CODE, name |-> "Docdata (renamed)"] >>,
      << [code |-> "paypal", name |-> "PayPal"],
         [code |-> SOURCE_CODE, name |-> "Docdata (renamed)"] >> }

SrcInit ==
    /\ CoreInit
    /\ sourceTypes \in SourceTables
    /\ SrcIdle
    /\ PayIdle
    /\ NoAttempts

GetSourceType(p) ==
    /\ stPc[p] = "idle"
    /\ stCalls < MaxSourceCalls
    /\ stCalls' = stCalls + 1
    /\ stPc' = [stPc EXCEPT ![p] = "get"]
    /\ stRet' = [stRet EXCEPT ![p] = 0]
    /\ UNCHANGED <<coreVars, payVars, attemptVars, sourceTypes>>

\* get(code='docdata'): the row, DoesNotExist or MultipleObjectsReturned.
\* "next" is where DoesNotExist leads.
StLookup(p, next) ==
    /\ IF DocdataRows = {}
       THEN /\ stPc' = [stPc EXCEPT ![p] = next]
            /\ UNCHANGED stRet
       ELSE IF Cardinality(DocdataRows) = 1
       THEN /\ stPc' = [stPc EXCEPT ![p] = "returned"]
            /\ stRet' = [stRet EXCEPT ![p] = CHOOSE i \in DocdataRows : TRUE]
       ELSE /\ stPc' = [stPc EXCEPT ![p] = "raised"]
            /\ UNCHANGED stRet
    /\ UNCHANGED <<coreVars, payVars, attemptVars, sourceTypes, stCalls>>

StGet(p) ==
    /\ stPc[p] = "get"
    /\ StLookup(p, "create")

\* create() as if the code column had no unique constraint.
StCreate_duplicate(p) ==
    /\ stPc[p] = "create"
    /\ sourceTypes' = Append(sourceTypes,
                             [code |-> SOURCE_CODE, name |-> SOURCE_NAME])
    /\ stRet' = [stRet EXCEPT ![p] = Len(sourceTypes) + 1]
    /\ stPc' = [stPc EXCEPT ![p] = "returned"]
    /\ UNCHANGED <<coreVars, payVars, attemptVars, stCalls>>

\* create(code='docdata', name="Docdata Payments"): the insert fails with
\* IntegrityError when a row with the code exists by now.
StCreate(p) ==
    /\ stPc[p] = "create"
    /\ IF DocdataRows = {}
       THEN /\ sourceTypes' = Append(sourceTypes,
                                 [code |-> SOURCE_CODE, name |-> SOURCE_NAME])
            /\ stRet' = [stRet EXCEPT ![p] = Len(sourceTypes) + 1]
            /\ stPc' = [stPc EXCEPT ![p] = "returned"]
       ELSE /\ stPc' = [stPc EXCEPT ![p] = "retry"]
            /\ UNCHANGED <<sourceTypes, stRet>>
    /\ UNCHANGED <<coreVars, payVars, attemptVars, stCalls>>

\* The second get(), after IntegrityError; DoesNotExist re-raises the error.
StRetry(p) ==
    /\ stPc[p] = "retry"
    /\ StLookup(p, "raised")

\* The caller has the source type (or the exception) and goes on.
StReturn(p) ==
    /\ stPc[p] \in {"returned", "raised"}
    /\ stPc' = [stPc EXCEPT ![p] = "idle"]
    /\ stRet' = [stRet EXCEPT ![p] = 0]
    /\ UNCHANGED <<coreVars, payVars, attemptVars, sourceTypes, stCalls>>

SrcNext ==
    \E p \in Procs :
        GetSourceType(p) \/ StGet(p) \/ StCreate(p) \/ StRetry(p) \/ StReturn(p)

SrcSpec == SrcInit /\ [][SrcNext]_vars

-----------------------------------------------------------------------------
(***************************************************************************)
(* create_payment: default the profile, call the gateway's create_payment, *)
(* turn its DocdataCreateError into a PaymentError, return its order key.  *)
(***************************************************************************)

DOCDATA_PROFILE == "standard"

\* The profiles a caller passes: none, an empty one, one of its own.
Profiles == {None, "", "mobile"}
OrderNumbers == {"100001", "100002"}
OrderKeys == {"key-A", "key-B"}
ErrorValues == {"REQUEST_DATA_INCORRECT", "REQUEST_DATA_MISSING"}

CreatePayment(n, prof) ==
    /\ cpPc = "idle"
    /\ cpCalls < MaxPayCalls
    /\ cpCalls' = cpCalls + 1
    /\ order_number' = n
    /\ profile' = prof
    /\ order_key' = None
    /\ gateway' = NoReply
    /\ cpResult' = None
    /\ cpExc' = NoException
    /\ cpPc' = "L45"
    /\ UNCHANGED <<coreVars, srcVars, attemptVars>>

\* if not profile: profile = appsettings.DOCDATA_PROFILE
DefaultProfile ==
    /\ cpPc = "L45"
    /\ profile' = IF Truthy(profile) THEN profile ELSE DOCDATA_PROFILE
    /\ cpPc' = "L49"
    /\ UNCHANGED <<coreVars, srcVars, attemptVars, order_number, order_key, gateway,
                   cpResult, cpExc, cpCalls>>

\* super().create_payment(...): it returns an order key, raises
\* DocdataCreateError with the gateway's error code, or fails otherwise
\* (the connection), which no handler here catches.
GatewayCreate ==
    /\ cpPc = "L49"
    /\ \/ \E k \in OrderKeys :
            /\ gateway' = [profile |-> profile, outcome |-> "key", value |-> k]
            /\ order_key' = k
            /\ cpPc' = "L53"
            /\ UNCHANGED cpExc
       \/ \E v \in ErrorValues :
            /\ gateway' = [profile |-> profile,
                           outcome |-> "DocdataCreateError", value |-> v]
            /\ cpPc' = "L51"
            /\ UNCHANGED <<order_key, cpExc>>
       \/ /\ gateway' = [profile |-> profile, outcome |-> "URLError",
                         value |-> None]
          /\ cpExc' = [type |-> "URLError", value |-> None, cause |-> None]
          /\ cpPc' = "raised"
          /\ UNCHANGED order_key
    /\ UNCHANGED <<coreVars, srcVars, attemptVars, order_number, profile, cpResult, cpCalls>>

\* The handler lets the creation error through as it came.
TranslateError_reraise ==
    /\ cpPc = "L51"
    /\ cpExc' = [type |-> "DocdataCreateError", value |-> gateway.value,
                 cause |-> None]
    /\ cpPc' = "raised"
    /\ UNCHANGED <<coreVars, srcVars, attemptVars, order_number, profile, order_key,
                   gateway, cpResult, cpCalls>>

\* except DocdataCreateError as e: raise PaymentError(e.value, e)
TranslateError ==
    /\ cpPc = "L51"
    /\ cpExc' = [type |-> "PaymentError", value |-> gateway.value,
                 cause |-> "DocdataCreateError"]
    /\ cpPc' = "raised"
    /\ UNCHANGED <<coreVars, srcVars, attemptVars, order_number, profile, order_key,
                   gateway, cpResult, cpCalls>>

\* return order_key
ReturnKey ==
    /\ cpPc = "L53"
    /\ cpResult' = order_key
    /\ cpPc' = "returned"
    /\ UNCHANGED <<coreVars, srcVars, attemptVars, order_number, profile, order_key,
                   gateway, cpExc, cpCalls>>

\* The caller has the key (or the exception) and goes on.
PaymentCreated ==
    /\ cpPc \in {"returned", "raised"}
    /\ cpPc' = "idle"
    /\ UNCHANGED <<coreVars, srcVars, attemptVars, order_number, profile, order_key,
                   gateway, cpResult, cpExc, cpCalls>>

PayNext ==
    \/ \E n \in OrderNumbers, prof \in Profiles : CreatePayment(n, prof)
    \/ DefaultProfile
    \/ GatewayCreate
    \/ TranslateError
    \/ ReturnKey
    \/ PaymentCreated

PaySpec == Init /\ [][PayNext]_vars

-----------------------------------------------------------------------------
(***************************************************************************)
(* The ledger of payment attempts: a report carries the amount debited so  *)
(* far for one attempt; it overwrites the attempt's amount, and the        *)
(* captured total of the order is recomputed from all of its attempts.     *)
(***************************************************************************)

\* The attempts the gateway reports, and the order each belongs to.
PaymentOrder == ("pay1" :> "o1") @@ ("pay2" :> "o1") @@ ("pay3" :> "o2")

RECURSIVE SumDebited(_, _)
SumDebited(rows, ids) ==
    IF ids = {} THEN 0
    ELSE LET i == CHOOSE x \in ids : TRUE
         IN  rows[i].amount_debited + SumDebited(rows, ids \ {i})

\* The sum of amount_debited over the attempts of order n.
CapturedSum(rows, n) ==
    SumDebited(rows, {i \in DOMAIN rows : rows[i].order = n})

\* The attempt is created at its first report and overwritten afterwards.
StoreAttempt(i, amount) ==
    payments' = (i :> [order |-> PaymentOrder[i], amount_debited |-> amount])
                @@ payments

\* The order total patched by the reported amount instead of recomputed.
RecomputeTotals_accumulate(n, amount) ==
    total_captured' = [total_captured EXCEPT ![n] = @ + amount]

\* The captured total of order n, recomputed from its attempts as stored now.
RecomputeTotals(n, amount) ==
    total_captured' = [total_captured EXCEPT ![n] = CapturedSum(payments', n)]

ReportPayment(i, amount) ==
    /\ reports < MaxReports
    /\ reports' = reports + 1
    /\ StoreAttempt(i, amount)
    /\ RecomputeTotals(PaymentOrder[i], amount)
    /\ lastReport' = [payment |-> i, amount |-> amount,
                      before |-> IF i \in DOMAIN payments
                                 THEN payments[i].amount_debited
                                 ELSE NoTotal]
    /\ UNCHANGED <<coreVars, srcVars, payVars>>

LedgerNext ==
    \E i \in DOMAIN PaymentOrder, amount \in Amounts : ReportPayment(i, amount)

LedgerSpec == Init /\ [][LedgerNext]_vars

-----------------------------------------------------------------------------
\* Vocabulary of the properties.

\* The invocation of p has left the method (returned or raised); its
\* transaction has not ended yet.
Left(p) == pc[p] \in {"returned", "raised"}

\* The step that ends the transaction of p's invocation.
Ends(p) == Left(p) /\ pc'[p] = "idle"

\* p went down the duplicate branch of line 115: the instance it read under
\* the lock already had the mapped status.
TookDuplicateBranch(p) ==
    /\ Left(p)
    /\ order[p] # NoOrder
    /\ order[p].status = project_status[p]
    /\ orders[order[p].number] = project_status[p]

\* p holds uncommitted writes or a row lock.
OpenWrites(p) ==
    \/ txOrder[p] # None
    \/ txLines[p] # NoLines
    \/ \E n \in Numbers : lock[n] = p

\* C1: a delivery for an order that already has the mapped status is
\* discarded with a diagnostic log entry and a normal return, never with an
\* exception.
C1_DuplicateReturnsNormally ==
    \A p \in Procs :
        TookDuplicateBranch(p) => pc[p] = "returned" /\ exc[p] = None /\ log > 0

\* C2: handling the notification that was handled last for the same order
\* leaves the order and every line as they are and sends no signal.
C2_SecondDeliveryIsNoOp ==
    [][\A p \in Procs :
         (Ends(p) /\ order[p] # NoOrder
                  /\ lastDone[order[p].number] = new_status[p])
         => (orders' = orders /\ lines' = lines /\ sent[p] = NoSignal)]_vars

\* Two invocations were made in all, both "paid" for one order: the first was
\* applied, the second has been discarded.
C2_Witness ==
    \E p \in Procs :
        /\ calls = 2
        /\ pc[Other(p)] = "idle"
        /\ pc[p] = "raised"
        /\ new_status[p] = "paid"
        /\ lastDone[docdataorder[p]] = "paid"
        /\ "Paid" \in history[docdataorder[p]]
        /\ sent[p] = NoSignal

\* C3: of two racing deliveries of one target status for one order, neither
\* of which fails on the database or in a receiver, exactly one applies the
\* transition and sends the signal; the other finds the status set and skips.
C3_RaceAppliesOnce ==
    (race.n # None /\ race.fail = 0)
    => /\ race.app <= 1
       /\ race.emit <= 1
       /\ (race.fin = 2 => /\ race.app = 1
                           /\ race.emit = 1
                           /\ orders[race.n] = race.ps)

\* Both racing invocations have ended, with no failure injected.
C3_Witness == race.n # None /\ race.fin = 2 /\ race.fail = 0

\* C4: whenever a signal has been sent for a transition, the writes of that
\* transition are committed: none is pending and no lock is held for it.
C4_SignalAfterCommit ==
    \A p \in Procs : sent[p] # NoSignal => ~OpenWrites(p)

\* The committed rows after the whole transition of p: the order at the
\* mapped status, its lines at the cascade status if one is configured.
TransitionOf(p) ==
    LET n == docdataorder[p]
        ps == MapStatus(new_status[p])
        c == CascadeFor(ps)
    IN  /\ orders' = [orders EXCEPT ![n] = ps]
        /\ lines' = [l \in DOMAIN lines |->
                       IF lines[l].order = n /\ c # None
                       THEN [lines[l] EXCEPT !.status = c]
                       ELSE lines[l]]

\* C5: the committed rows change only by the commit of a whole transition
\* (status written, lines cascaded, order saved, signal sent); an invocation
\* that fails changes nothing, and no status change is committed without
\* its signal.
C5_AllOrNothing ==
    [][(orders' # orders \/ lines' # lines)
       => \E p \in Procs :
            /\ pc[p] = "returned"
            /\ pc'[p] = "idle"
            /\ sent[p] # NoSignal
            /\ TransitionOf(p)]_vars

\* order.save() has failed after the lines of the order were updated in the
\* transaction, which is about to be rolled back.
C5_Witness ==
    \E p \in Procs :
        /\ pc[p] = "raised"
        /\ exc[p] = "DatabaseError"
        /\ txLines[p] # NoLines
        /\ txOrder[p] = None

\* C6 as stated: a status that was applied to an order and notified is never
\* applied to that order and notified again.
C6_AtMostOncePerStatus ==
    [][\A p \in Procs :
         (Ends(p) /\ pc[p] = "returned" /\ sent[p] # NoSignal)
         => project_status[p] \notin history[docdataorder[p]]]_vars

\* C6 as amended: a delivery is applied and notified only when the order's
\* stored status differs from its target status, which it then takes.
C6_AppliedOnlyOnChange ==
    [][\A p \in Procs :
         (Ends(p) /\ pc[p] = "returned" /\ sent[p] # NoSignal)
         => /\ orders[docdataorder[p]] # project_status[p]
            /\ orders'[docdataorder[p]] = project_status[p]]_vars

\* A status applied before is about to be committed again, after another
\* status took its place.
C6_Witness ==
    \E p \in Procs :
        /\ pc[p] = "returned"
        /\ sent[p] # NoSignal
        /\ project_status[p] \in history[docdataorder[p]]
        /\ orders[docdataorder[p]] # project_status[p]

\* p's invocation applied a transition: it returned after sending its signal.
Applied(p) == pc[p] = "returned" /\ sent[p] # NoSignal

\* C7: the end of an applied transition leaves every line of the order at the
\* configured cascade status, or untouched if none is configured; every other
\* step, a discarded duplicate included, leaves every line as it is; lines of
\* other orders never change.
C7_Cascade ==
    [][/\ (\A p \in Procs : ~(Ends(p) /\ Applied(p))) => lines' = lines
       /\ \A p \in Procs :
            (Ends(p) /\ Applied(p)) =>
              \A l \in DOMAIN lines :
                /\ lines'[l].order = lines[l].order
                /\ lines'[l].status =
                     IF lines[l].order = docdataorder[p]
                        /\ project_status[p] \in DOMAIN OSCAR_ORDER_STATUS_CASCADE
                     THEN OSCAR_ORDER_STATUS_CASCADE[project_status[p]]
                     ELSE lines[l].status]_vars

\* An order was cascaded and then moved to a status without a cascade: its
\* lines kept the cascade status and the other order's line was never touched.
C7_Witness ==
    /\ orders["o1"] = "Pending"
    /\ history["o1"] = {"Paid", "Pending"}
    /\ lines["l1"].status = "Being processed"
    /\ lines["l2"].status = "Being processed"
    /\ lines["l3"].status = "Pending"

\* C8: the project status is the mapping's value for a mapped status and the
\* reported status itself otherwise; an applied transition stores exactly it,
\* and when it is not a status the cascade knows, no line changes.
C8_MappingFailsOpen ==
    [][\A p \in Procs :
         LET new == new_status[p]
             ps == IF new \in DOMAIN DOCDATA_ORDER_STATUS_MAPPING
                   THEN DOCDATA_ORDER_STATUS_MAPPING[new]
                   ELSE new
         IN  /\ (pc[p] \notin {"idle"}) => project_status[p] = ps
             /\ (Ends(p) /\ Applied(p)) =>
                  /\ orders'[docdataorder[p]] = ps
                  /\ (ps \notin DOMAIN OSCAR_ORDER_STATUS_CASCADE) => lines' = lines]_vars

\* The unmapped status "on_hold" is stored as reported, after a cascade whose
\* result it left alone.
C8_Witness ==
    /\ orders["o1"] = "on_hold"
    /\ lines["l1"].status = "Being processed"
    /\ lines["l2"].status = "Being processed"

\* p was called for a merchant order number no order has.
Missing(p) == pc[p] # "idle" /\ docdataorder[p] \notin DOMAIN orders

\* C9: an invocation for a missing order raises DoesNotExist at line 114 and
\* does nothing else: no row is created or changed, no signal is sent.
C9_NotFound ==
    [][\A p \in Procs :
         (Missing(p) /\ pc'[p] # pc[p]) =>
            /\ pc[p] \in {"L114", "raised"}
            /\ pc[p] = "L114" => (pc'[p] = "raised" /\ exc'[p] = "DoesNotExist")
            /\ sent[p] = NoSignal /\ sent'[p] = NoSignal
            /\ ~OpenWrites(p)
            /\ orders' = orders
            /\ lines' = lines]_vars

\* The lookup of a missing order has raised.
C9_Witness ==
    \E p \in Procs :
        /\ pc[p] = "raised"
        /\ exc[p] = "DoesNotExist"
        /\ docdataorder[p] = "o9"

\* C10: no lock outlives the invocation that took it, so every invocation
\* that was called ends and every row lock is released again.
C10_LockReleased ==
    /\ [](\A p \in Procs : pc[p] = "idle" => \A n \in Numbers : lock[n] # p)
    /\ \A p \in Procs : (pc[p] # "idle") ~> (pc[p] = "idle")
    /\ \A n \in Numbers : (lock[n] # None) ~> (lock[n] = None)

\* An invocation waits for the row lock held by one that left the method
\* with an exception.
C10_Witness ==
    \E p \in Procs :
        /\ pc[p] = "L114"
        /\ pc[Other(p)] = "raised"
        /\ lock[docdataorder[p]] = Other(p)

\* C11: at most one row has the code 'docdata'; every call of
\* get_source_type returns and returns that row, which exists from then on;
\* and no call changes or removes a row it finds, so the name of an existing
\* 'docdata' row stays as it is.
C11_OneSourceType ==
    /\ [](/\ Cardinality(DocdataRows) <= 1
          /\ \A p \in Procs :
               /\ stPc[p] # "raised"
               /\ stPc[p] = "returned" => DocdataRows = {stRet[p]})
    /\ [][\A i \in DOMAIN sourceTypes :
            /\ i \in DOMAIN sourceTypes'
            /\ sourceTypes'[i] = sourceTypes[i]]_vars

\* Both handlers found no row and one created it: the create() of the other
\* has failed on the unique code, and its second get() is about to return
\* the row of the first.
C11_Witness ==
    \E p \in Procs :
        /\ stPc[p] = "retry"
        /\ stPc[Other(p)] = "returned"
        /\ DocdataRows = {stRet[Other(p)]}

\* create_payment has left, by return or by exception.
CpLeft == cpPc \in {"returned", "raised"}

\* C12: when the gateway call raised DocdataCreateError, create_payment
\* raises PaymentError, with the gateway's error value, and returns no key;
\* when the gateway call returned a key, create_payment returns that key and
\* raises nothing.
C12_CreateErrorBecomesPaymentError ==
    CpLeft =>
        /\ gateway.outcome = "DocdataCreateError"
           => /\ cpPc = "raised"
              /\ cpExc.type = "PaymentError"
              /\ cpExc.value = gateway.value
              /\ cpResult = None
        /\ gateway.outcome = "key"
           => /\ cpPc = "returned"
              /\ cpResult = gateway.value
              /\ cpExc = NoException

\* The gateway rejected the session for a call that passed no profile, and
\* the caller has the exception.
C12_Witness ==
    /\ cpPc = "raised"
    /\ gateway.outcome = "DocdataCreateError"
    /\ gateway.profile = DOCDATA_PROFILE

C14_DerivedAggregation ==
    /\ [](\A n \in Numbers : total_captured[n] = CapturedSum(payments, n))
    /\ [][(reports' # reports /\ lastReport'.before = lastReport'.amount)
          => total_captured' = total_captured]_vars

\* 50 was reported for an attempt that already had 50, next to another
\* attempt of the order: the total is the sum of the two, 50 counted once.
C14_Witness ==
    /\ lastReport.payment = "pay1"
    /\ lastReport.amount = 50
    /\ lastReport.before = 50
    /\ "pay2" \in DOMAIN payments
    /\ total_captured["o1"] = 50 + payments["pay2"].amount_debited
    /\ payments["pay2"].amount_debited = 100

\* p's delivery was discarded as a duplicate.
Skipped(p) == pc[p] = "raised" /\ exc[p] = "IndexError"

\* A failure was injected into p's invocation.
Failed(p) == pc[p] = "raised" /\ exc[p] \in {"DatabaseError", "ReceiverError"}

\* C15: a delivery is discarded exactly when its mapped status equals the
\* status stored for the order; any other delivery, one that takes the order
\* back to an earlier status included, writes its status and sends its signal.
C15_EqualityOnly ==
    \A p \in Procs :
        (Left(p) /\ order[p] # NoOrder) =>
            /\ Skipped(p) <=> (orders[order[p].number] = project_status[p])
            /\ (~Skipped(p) /\ ~Failed(p)) =>
                  /\ pc[p] = "returned"
                  /\ txOrder[p] = project_status[p]
                  /\ sent[p] # NoSignal

\* An order that was paid is about to be committed as pending again, with its
\* signal sent.
C15_Witness ==
    \E p \in Procs :
        /\ pc[p] = "returned"
        /\ orders[docdataorder[p]] = "Paid"
        /\ txOrder[p] = "Pending"
        /\ sent[p] # NoSignal

\* The order rows p holds a lock on.
LockedBy(p) == {n \in Numbers : lock[n] = p}

\* C16: an invocation holds the lock of at most one order row, the one it was
\* called for; an invocation waiting at line 114 can go on unless the other
\* one holds the lock of that same order; some invocation in progress can
\* always take a step.
C16_OneLockPerInvocation ==
    /\ \A p \in Procs :
          /\ Cardinality(LockedBy(p)) <= 1
          /\ LockedBy(p) \subseteq {docdataorder[p]}
          /\ (pc[p] = "L114" /\ docdataorder[Other(p)] # docdataorder[p])
                => ENABLED SelectForUpdate(p)
    /\ (\E p \in Procs : pc[p] # "idle") => \E p \in Procs : ENABLED Step(p)

\* The two invocations hold the locks of two different orders.
C16_Witness == lock["o1"] = "return" /\ lock["o2"] = "callback"

\* C17: a delivery whose reported status differs from the one handled last
\* for the order but maps to the same project status is discarded: nothing
\* changes and no signal is sent.
C17_SameMappedStatusIsDuplicate ==
    [][\A p \in Procs :
         (Ends(p) /\ order[p] # NoOrder
                  /\ lastDone[order[p].number] \in ExternalStatuses
                  /\ lastDone[order[p].number] # new_status[p]
                  /\ MapStatus(lastDone[order[p].number]) = MapStatus(new_status[p]))
         => (Skipped(p) /\ orders' = orders /\ lines' = lines /\ sent[p] = NoSignal)]_vars

\* "closed_success" is discarded after "paid" was handled for the order.
C17_Witness ==
    \E p \in Procs :
        /\ Skipped(p)
        /\ new_status[p] = "closed_success"
        /\ lastDone[docdataorder[p]] = "paid"

\* C18: the signal of an invocation carries the order, the old status and the
\* new status the invocation was called with: the reported statuses, not the
\* mapped one that is stored nor the one the order had before.
C18_SignalCarriesArguments ==
    \A p \in Procs :
        sent[p] # NoSignal =>
            sent[p] = [order |-> docdataorder[p],
                       old_status |-> old_status[p],
                       new_status |-> new_status[p]]

\* A signal went out with the reported "paid" where "Paid" is stored, and
\* with an old status that is not the one the order had.
C18_Witness ==
    \E p \in Procs :
        /\ sent[p] # NoSignal
        /\ sent[p].new_status = "paid"
        /\ project_status[p] = "Paid"
        /\ sent[p].old_status = "paid"
        /\ orders[docdataorder[p]] = "Pending"

=============================================================================
